---------------------------- MODULE Spec2Model ----------------------------
(***************************************************************************)
(* wt-go: worktree lifecycle controller, registry reader and toggle state  *)
(* store (internal/worktree/worktree.go), over a model of the git          *)
(* repository it drives through git.Exec.                                  *)
(*                                                                         *)
(* Go strings are sequences of one-character strings, so that TrimSpace,   *)
(* HasPrefix, TrimPrefix, Split and the filepath functions are computed    *)
(* character by character, as the code computes them.                      *)
(***************************************************************************)
EXTENDS Naturals, Sequences, FiniteSets

(***************************************************************************)
(* Bounds of the model.                                                    *)
(***************************************************************************)
\* records of a listing handed to the parser on its own
MaxRecords == 2

(***************************************************************************)
(* package strings                                                         *)
(***************************************************************************)
\* unicode.IsSpace on the characters that occur
IsSpace(c) == c \in {" ", "\t", "\n", "\r"}

RECURSIVE TrimLeft(_)
TrimLeft(s) ==
    IF s # <<>> /\ IsSpace(Head(s)) THEN TrimLeft(Tail(s)) ELSE s

RECURSIVE TrimRight(_)
TrimRight(s) ==
    IF s # <<>> /\ IsSpace(s[Len(s)]) THEN TrimRight(SubSeq(s, 1, Len(s) - 1)) ELSE s

\* strings.TrimSpace
TrimSpace(s) == TrimRight(TrimLeft(s))

\* strings.HasPrefix
HasPrefix(s, p) == Len(s) >= Len(p) /\ SubSeq(s, 1, Len(p)) = p

\* strings.TrimPrefix
TrimPrefix(s, p) == IF HasPrefix(s, p) THEN SubSeq(s, Len(p) + 1, Len(s)) ELSE s

\* index of the first occurrence of character c in s, 0 when there is none
RECURSIVE IndexFrom(_, _, _)
IndexFrom(s, c, i) ==
    IF i > Len(s) THEN 0
    ELSE IF s[i] = c THEN i
    ELSE IndexFrom(s, c, i + 1)

\* strings.Split(s, sep) for a one-character separator
RECURSIVE Split(_, _)
Split(s, c) ==
    LET i == IndexFrom(s, c, 1) IN
    IF i = 0 THEN <<s>>
    ELSE <<SubSeq(s, 1, i - 1)>> \o Split(SubSeq(s, i + 1, Len(s)), c)

\* strings.SplitN(s, sep, 2) for a one-character separator
SplitN2(s, c) ==
    LET i == IndexFrom(s, c, 1) IN
    IF i = 0 THEN <<s>>
    ELSE <<SubSeq(s, 1, i - 1), SubSeq(s, i + 1, Len(s))>>

\* strings.ReplaceAll(s, old, new) for one-character old and new
ReplaceAll(s, old, new) == [i \in 1..Len(s) |-> IF s[i] = old THEN new ELSE s[i]]

\* index of the last occurrence of character c in s, 0 when there is none
RECURSIVE LastIndex(_, _, _)
LastIndex(s, c, i) ==
    IF i = 0 THEN 0
    ELSE IF s[i] = c THEN i
    ELSE LastIndex(s, c, i - 1)

(***************************************************************************)
(* package path/filepath, on clean absolute paths                          *)
(***************************************************************************)
\* filepath.Dir
Dir(p) ==
    LET i == LastIndex(p, "/", Len(p)) IN
    IF i = 0 THEN <<".">>
    ELSE IF i = 1 THEN <<"/">>
    ELSE SubSeq(p, 1, i - 1)

\* filepath.Base
Base(p) ==
    LET i == LastIndex(p, "/", Len(p)) IN
    IF p = <<>> THEN <<".">>
    ELSE SubSeq(p, i + 1, Len(p))

\* filepath.Join of two elements
Join(a, b) ==
    IF a = <<>> THEN b
    ELSE IF b = <<>> THEN a
    ELSE IF a[Len(a)] = "/" THEN a \o b
    ELSE a \o <<"/">> \o b

(***************************************************************************)
(* Text of git worktree list --porcelain                                   *)
(***************************************************************************)
NL == <<"\n">>
WorktreeKey == <<"w", "o", "r", "k", "t", "r", "e", "e", " ">>
BranchKey == <<"b", "r", "a", "n", "c", "h", " ">>
HeadsPrefix == <<"r", "e", "f", "s", "/", "h", "e", "a", "d", "s", "/">>
HeadLine == <<"H", "E", "A", "D", " ", "0">>
DetachedLine == <<"d", "e", "t", "a", "c", "h", "e", "d">>

\* a worktree without a branch (detached HEAD) carries this in its branch field
NoBranch == <<>>


\* one record of the listing as git prints it: the worktree line, the HEAD
\* line, the branch line (or "detached"), then the blank line ending it
RecordLines(rec) ==
    WorktreeKey \o rec.path \o NL \o HeadLine \o NL
    \o (IF rec.branch = NoBranch THEN DetachedLine
        ELSE BranchKey \o HeadsPrefix \o rec.branch)

RECURSIVE RenderRecords(_)
RenderRecords(recs) ==
    IF recs = <<>> THEN <<>>
    ELSE RecordLines(Head(recs)) \o NL \o NL \o RenderRecords(Tail(recs))

\* output of git worktree list --porcelain for the worktrees recs
RenderListing(recs) == RenderRecords(recs)

\* how a listing text may end: as git ends it (a blank line after the last
\* record), with the last line's newline only, or with no newline at all
Terminators == {"blank", "newline", "none"}

\* the listing of recs ending as term says
ListingText(recs, term) ==
    LET full == RenderRecords(recs) IN
    IF recs = <<>> \/ term = "blank" THEN full
    ELSE IF term = "newline" THEN SubSeq(full, 1, Len(full) - 1)
    ELSE SubSeq(full, 1, Len(full) - 2)

(***************************************************************************)
(* Worktree Registry Reader                                                *)
(***************************************************************************)
\* the test that yields a record: worktree.go lines 179 and 198
BlockMatchesAnyBranch(currentPath, currentBranch, branchName) == currentPath # <<>>

BlockMatches(currentPath, currentBranch, branchName) ==
    currentPath # <<>> /\ currentBranch = branchName

FindFlushNone(currentPath, currentBranch, branchName) == <<>>

\* after the loop: the record still open at the end of the input
FindFlush(currentPath, currentBranch, branchName) ==
    IF BlockMatches(currentPath, currentBranch, branchName) THEN currentPath ELSE <<>>

\* the short branch name of a "branch <ref>" line; the caller has checked the prefix
BranchRefOf(line) ==
    LET parts == SplitN2(line, " ") IN
    IF Len(parts) = 2 THEN TrimPrefix(parts[2], HeadsPrefix) ELSE <<>>

\* the loop of FindWorktreePathForBranch over lines[i..]
RECURSIVE FindLoop(_, _, _, _, _)
FindLoop(lines, i, currentPath, currentBranch, branchName) ==
    IF i > Len(lines) THEN FindFlush(currentPath, currentBranch, branchName)
    ELSE
      LET line == TrimSpace(lines[i]) IN
      IF line = <<>> THEN
          IF BlockMatches(currentPath, currentBranch, branchName) THEN currentPath
          ELSE FindLoop(lines, i + 1, <<>>, <<>>, branchName)
      ELSE IF HasPrefix(line, WorktreeKey) THEN
          FindLoop(lines, i + 1, TrimPrefix(line, WorktreeKey), currentBranch, branchName)
      ELSE IF HasPrefix(line, BranchKey) THEN
          FindLoop(lines, i + 1, currentPath,
                   IF Len(SplitN2(line, " ")) = 2 THEN BranchRefOf(line) ELSE currentBranch,
                   branchName)
      ELSE FindLoop(lines, i + 1, currentPath, currentBranch, branchName)

\* FindWorktreePathForBranch once the listing succeeded with text output:
\* the path of the first record of the branch, <<>> when there is none
FindWorktreePathForBranch(output, branchName) ==
    FindLoop(Split(output, "\n"), 1, <<>>, <<>>, branchName)

AppendAlways(names, branchRef) == Append(names, branchRef)

\* ListWorktrees: a non-empty branch name is recorded the first time it is seen
AppendUnseen(names, branchRef) ==
    IF branchRef # <<>> /\ ~(\E k \in 1..Len(names) : names[k] = branchRef)
    THEN Append(names, branchRef)
    ELSE names

\* the loop of ListWorktrees over lines[i..]
RECURSIVE ListLoop(_, _, _)
ListLoop(lines, i, orderedBranchNames) ==
    IF i > Len(lines) THEN orderedBranchNames
    ELSE
      LET line == TrimSpace(lines[i]) IN
      IF HasPrefix(line, BranchKey) /\ Len(SplitN2(line, " ")) = 2
      THEN ListLoop(lines, i + 1, AppendUnseen(orderedBranchNames, BranchRefOf(line)))
      ELSE ListLoop(lines, i + 1, orderedBranchNames)

\* ListWorktrees once the listing succeeded: the branch names it prints, in order
ListWorktrees(output) == ListLoop(Split(output, "\n"), 1, <<>>)

(***************************************************************************)
(* The repository, the directories and the branch names of the model       *)
(***************************************************************************)
Main == <<"m", "a", "i", "n">>
Master == <<"m", "a", "s", "t", "e", "r">>
BrAB == <<"a", "/", "b">>

\* the main worktree, a directory of it whose name ends with a space, and
\* the repository's git directory
RepoRoot == <<"/", "r">>
SpaceDir == <<"/", "r", "/", "d", " ">>
GitDir == <<"/", "r", "/", ".", "g", "i", "t">>
StaticDirs == {RepoRoot, SpaceDir, GitDir}

\* branch names given to wtgo <branch> and to wtgo --rm <branch>
CreateArgs == {<<>>, Main, BrAB}
RemoveArgs == {<<>>, Main, Master, BrAB}

VARIABLES
    refs,       \* the branch refs of the repository (refs/heads/*)
    wts,        \* its worktrees in listing order: [path, branch]; the main one first
    stateFile,  \* <git-common-dir>/wt.state: [exists, content]
    cwd,        \* the working directory of the shell that invokes wtgo
    last,       \* the last invocation: what it was given, did and reported
    tick,       \* flips at every invocation
    pRecs,      \* registry reader on its own: the records of the listing
    pOut,       \* registry reader on its own: the last lookup or enumeration
    race        \* two invocations at once: [procs, hist], each one's position

vars == <<refs, wts, stateFile, cwd, last, tick, pRecs, pOut, race>>

\* one entry of an invocation's log: a git.Exec call, a file operation of
\* package os, or a line written to stderr
Ev(kind, path, branch, flag) ==
    [kind |-> kind, path |-> path, branch |-> branch, flag |-> flag]
Call(kind) == Ev(kind, <<>>, <<>>, FALSE)

VcsKinds == {"list", "show-toplevel", "git-common-dir", "verify", "add", "remove", "delete"}
MutatingKinds == {"add", "remove", "delete"}

(***************************************************************************)
(* git, as far as the controller drives it                                 *)
(***************************************************************************)
Within(d, p) == d = p \/ HasPrefix(d, p \o <<"/">>)
InGitDir(d) == Within(d, GitDir)
PathInUse(w, p) == \E i \in 1..Len(w) : w[i].path = p
CheckedOut(w, b) == \E i \in 1..Len(w) : w[i].branch = b

\* cwd lies in a worktree (and not in the git directory)
InWorkTree(w, d) == ~InGitDir(d) /\ \E i \in 1..Len(w) : Within(d, w[i].path)

\* git runs at all: cwd is a directory of the repository that still exists
GitRuns(w, d) == InGitDir(d) \/ InWorkTree(w, d)

\* git rev-parse --show-toplevel: the root of the worktree cwd lies in
ShowToplevel(w, d) ==
    LET i == CHOOSE i \in 1..Len(w) :
                 /\ Within(d, w[i].path)
                 /\ \A j \in 1..Len(w) : Within(d, w[j].path) => Len(w[j].path) <= Len(w[i].path)
    IN w[i].path \o NL

\* w without its record of path p
RECURSIVE Without(_, _)
Without(w, p) ==
    IF w = <<>> THEN <<>>
    ELSE (IF Head(w).path = p THEN <<>> ELSE <<Head(w)>>) \o Without(Tail(w), p)

\* git worktree add [-b] : whether it succeeds, fails being what git reports
\* for a path in use, a missing or checked-out branch, or an existing one with -b
AddSucceeds(r, w, path, branch, create, envFail) ==
    /\ ~envFail
    /\ ~PathInUse(w, path)
    /\ IF create THEN branch \notin r
       ELSE branch \in r /\ ~CheckedOut(w, branch)

\* git worktree remove [--force] <path>: the main worktree is never removed
RemoveSucceeds(w, path, envFail) ==
    /\ ~envFail
    /\ \E i \in 2..Len(w) : w[i].path = path

\* git branch -d|-D <branch>
DeleteSucceeds(r, w, branch, envFail) ==
    /\ ~envFail
    /\ branch \in r
    /\ ~CheckedOut(w, branch)

(***************************************************************************)
(* What the environment does to one invocation: which of its calls fail    *)
(* for reasons the model does not derive (a dirty worktree, an unmerged    *)
(* branch, a full disk, a lock).  save says where saveCurrentWorktreeState *)
(* fails; "trunc" is an os.WriteFile that fails after truncating the file. *)
(***************************************************************************)
SaveFails == {"none", "common", "read", "write", "trunc"}

CreateEnvs ==
    {e \in [list : BOOLEAN, getwd : BOOLEAN, save : SaveFails, root : BOOLEAN, add : BOOLEAN] :
        /\ e.list => (~e.getwd /\ e.save = "none" /\ ~e.root /\ ~e.add)
        /\ e.root => ~e.add}

RemoveEnvs ==
    {e \in [list : BOOLEAN, remove : BOOLEAN, delete : BOOLEAN, add : BOOLEAN] :
        /\ e.list => (~e.remove /\ ~e.delete /\ ~e.add)
        /\ e.remove => (~e.delete /\ ~e.add)
        /\ e.add => e.delete}

PrevEnvs ==
    {e \in [common : BOOLEAN, read : BOOLEAN, getwd : BOOLEAN, save : SaveFails] :
        /\ e.common => (~e.read /\ ~e.getwd /\ e.save = "none")
        /\ e.read => (~e.getwd /\ e.save = "none")}

ListEnvs == [list : BOOLEAN]

(***************************************************************************)
(* Toggle State Store                                                      *)
(***************************************************************************)
Missing == [exists |-> FALSE, content |-> <<>>]
Stored(content) == [exists |-> TRUE, content |-> content]

SaveSkipsWhenPresent(file, wd) == file.exists

\* the file is read and left alone when it already names the directory
SaveSkips(file, wd) == file.exists /\ TrimSpace(file.content) = wd

\* saveCurrentWorktreeState: [err, file, log], file being the state file after it
saveCurrentWorktreeState(file, wd, gitOk, e) ==
    LET common == <<Call("save"), Call("git-common-dir")>>
        getwd == common \o <<Call("getwd")>>
        read == getwd \o <<Call("read")>>
    IN
    IF ~gitOk \/ e.save = "common" THEN [err |-> TRUE, file |-> file, log |-> common]
    ELSE IF e.getwd THEN [err |-> TRUE, file |-> file, log |-> getwd]
    ELSE IF e.save = "read" THEN [err |-> TRUE, file |-> file, log |-> read]
    ELSE IF SaveSkips(file, wd)
         THEN [err |-> FALSE, file |-> file, log |-> read]
    ELSE IF e.save = "write"
         THEN [err |-> TRUE, file |-> file, log |-> read \o <<Ev("write", wd, <<>>, FALSE)>>]
    ELSE IF e.save = "trunc"
         THEN [err |-> TRUE, file |-> Stored(<<>>),
               log |-> read \o <<Ev("write", wd, <<>>, FALSE)>>]
    ELSE [err |-> FALSE, file |-> Stored(wd),
          log |-> read \o <<Ev("write", wd, <<>>, TRUE)>>]

\* the save as the controller calls it: its error becomes a warning on stderr
SaveWithWarning(file, wd, gitOk, e) ==
    LET s == saveCurrentWorktreeState(file, wd, gitOk, e) IN
    [file |-> s.file, err |-> s.err,
     log |-> s.log \o (IF s.err THEN <<Call("warn-save")>> ELSE <<>>)]

(***************************************************************************)
(* Worktree Lifecycle Controller                                           *)
(* Each operator gives the outcome of one invocation from the current      *)
(* state: [refs, wts, file, out, path, names, log].                        *)
(***************************************************************************)
Outcome(r, w, file, out, path, log) ==
    [refs |-> r, wts |-> w, file |-> file, out |-> out, path |-> path,
     names |-> <<>>, log |-> log]

\* filepath.Abs of a clean absolute path
Abs(p) == IF Len(p) > 1 /\ p[Len(p)] = "/" THEN SubSeq(p, 1, Len(p) - 1) ELSE p

\* <parent of the root>/<root's base name>.wt/<branch with _ for />
NewWorktreePath(repoRoot, branchName) ==
    Join(Join(Dir(repoRoot), Base(repoRoot) \o <<".", "w", "t">>),
         ReplaceAll(branchName, "/", "_"))

AddArgsAlwaysCreate(branchExists, newWorktreePath, branchName) ==
    Ev("add", newWorktreePath, branchName, TRUE)

\* the git worktree add of a creation; flag says -b (create the branch)
AddArgs(branchExists, newWorktreePath, branchName) ==
    Ev("add", newWorktreePath, branchName, ~branchExists)

CreateNewKeepsStateOnFailure(branchName, file, log, e) ==
    LET gitOk == GitRuns(wts, cwd)
        rootLog == log \o <<Call("show-toplevel")>>
    IN
    IF ~gitOk \/ ~InWorkTree(wts, cwd) \/ e.root
    THEN Outcome(refs, wts, stateFile, "err-root", <<>>, rootLog \o <<Call("stderr-err-root")>>)
    ELSE
      LET repoRoot == TrimSpace(ShowToplevel(wts, cwd))
          newWorktreePath == NewWorktreePath(repoRoot, branchName)
          branchExists == branchName \in refs
          add == AddArgs(branchExists, newWorktreePath, branchName)
          addLog == rootLog \o <<Ev("verify", <<>>, branchName, branchExists), add>>
      IN
      IF AddSucceeds(refs, wts, add.path, add.branch, add.flag, e.add)
      THEN Outcome(refs \cup {add.branch}, Append(wts, [path |-> add.path, branch |-> add.branch]),
                   file, "ok", newWorktreePath, addLog)
      ELSE Outcome(refs, wts, stateFile, "err-add", <<>>, addLog \o <<Call("stderr-err-add")>>)

\* CreateWorktreeAndBranch from line 59 on: no worktree of the branch exists
CreateNew(branchName, file, log, e) ==
    LET gitOk == GitRuns(wts, cwd)
        rootLog == log \o <<Call("show-toplevel")>>
    IN
    IF ~gitOk \/ ~InWorkTree(wts, cwd) \/ e.root
    THEN Outcome(refs, wts, file, "err-root", <<>>, rootLog \o <<Call("stderr-err-root")>>)
    ELSE
      LET repoRoot == TrimSpace(ShowToplevel(wts, cwd))
          newWorktreePath == NewWorktreePath(repoRoot, branchName)
          branchExists == branchName \in refs
          add == AddArgs(branchExists, newWorktreePath, branchName)
          addLog == rootLog \o <<Ev("verify", <<>>, branchName, branchExists), add>>
      IN
      IF AddSucceeds(refs, wts, add.path, add.branch, add.flag, e.add)
      THEN Outcome(refs \cup {add.branch}, Append(wts, [path |-> add.path, branch |-> add.branch]),
                   file, "ok", newWorktreePath, addLog)
      ELSE Outcome(refs, wts, file, "err-add", <<>>, addLog \o <<Call("stderr-err-add")>>)

ReportOrCreateNoReturn(branchName, existingPath, file, log, e) ==
    CreateNew(branchName, file, log, e)

ReportOrCreateUnlessWarned(branchName, existingPath, file, log, e) ==
    IF \E i \in 1..Len(log) : log[i].kind = "warn-save"
    THEN Outcome(refs, wts, file, "err-save", <<>>, log)
    ELSE IF existingPath # <<>>
    THEN Outcome(refs, wts, file, "ok", existingPath, log)
    ELSE CreateNew(branchName, file, log, e)

\* CreateWorktreeAndBranch from line 54 on: an existing worktree's path is
\* printed and nothing is created
ReportOrCreate(branchName, existingPath, file, log, e) ==
    IF existingPath # <<>>
    THEN Outcome(refs, wts, file, "ok", existingPath, log)
    ELSE CreateNew(branchName, file, log, e)

IsSwitchingAlways(existingPath, wd, getwdFails) == TRUE

\* isSwitching: no worktree found, or one found at another directory than
\* the current one; a failed os.Getwd leaves it false
IsSwitching(existingPath, wd, getwdFails) ==
    IF existingPath # <<>>
    THEN ~getwdFails /\ Abs(wd) # Abs(existingPath)
    ELSE TRUE

\* CreateWorktreeAndBranch; found is what FindWorktreePathForBranch returns
\* on the listing of the current worktrees
CreateWorktreeAndBranch(branchName, found, e) ==
    IF branchName = <<>>
    THEN Outcome(refs, wts, stateFile, "err-empty", <<>>, <<Call("stderr-err-empty")>>)
    ELSE IF ~GitRuns(wts, cwd) \/ e.list
    THEN Outcome(refs, wts, stateFile, "err-list", <<>>,
                 <<Call("list"), Call("stderr-err-list")>>)
    ELSE
      LET existingPath == found
          getwdLog == IF existingPath # <<>> THEN <<Call("getwd")>> ELSE <<>>
          isSwitching == IsSwitching(existingPath, cwd, e.getwd)
          warnLog == IF existingPath # <<>> /\ e.getwd THEN <<Call("warn-getwd")>> ELSE <<>>
          s == IF isSwitching THEN SaveWithWarning(stateFile, cwd, TRUE, e)
               ELSE [file |-> stateFile, err |-> FALSE, log |-> <<>>]
          log == <<Call("list")>> \o getwdLog \o warnLog \o s.log
      IN
      ReportOrCreate(branchName, existingPath, s.file, log, e)

IsProtectedMainOnly(branchName) == branchName = Main

\* the policy guard of RemoveWorktreeAndBranch
IsProtected(branchName) == branchName = Main \/ branchName = Master

RecreateArgsElsewhere(worktreePath, branchName) ==
    Ev("add", worktreePath \o <<"2">>, branchName, FALSE)

RecreateArgsCreate(worktreePath, branchName) == Ev("add", worktreePath, branchName, TRUE)

\* the git worktree add of the rollback: same path, same branch, no -b
RecreateArgs(worktreePath, branchName) == Ev("add", worktreePath, branchName, FALSE)

DeleteOrRestoreForgets(branchName, force, worktreePath, w, log, e) ==
    LET delLog == log \o <<Ev("delete", <<>>, branchName, force)>> IN
    IF DeleteSucceeds(refs, w, branchName, e.delete)
    THEN Outcome(refs \ {branchName}, w,
                 IF TrimSpace(stateFile.content) = worktreePath THEN Missing ELSE stateFile,
                 "ok", <<>>, delLog \o <<Call("stderr-branch-delete")>>)
    ELSE
      LET add == RecreateArgs(worktreePath, branchName)
          addLog == delLog \o <<Call("stderr-err-delete"), Call("stderr-restore-attempt"), add>>
      IN
      IF AddSucceeds(refs, w, add.path, add.branch, add.flag, e.add)
      THEN Outcome(refs \cup {add.branch}, Append(w, [path |-> add.path, branch |-> add.branch]),
                   stateFile, "restored", <<>>, addLog \o <<Call("stderr-restored")>>)
      ELSE Outcome(refs, w, stateFile, "fatal", <<>>, addLog \o <<Call("stderr-fatal")>>)

DeleteOrRestoreNoFatal(branchName, force, worktreePath, w, log, e) ==
    LET delLog == log \o <<Ev("delete", <<>>, branchName, force)>> IN
    IF DeleteSucceeds(refs, w, branchName, e.delete)
    THEN Outcome(refs \ {branchName}, w, stateFile, "ok", <<>>,
                 delLog \o <<Call("stderr-branch-delete")>>)
    ELSE
      LET add == RecreateArgs(worktreePath, branchName)
          addLog == delLog \o <<Call("stderr-err-delete"), Call("stderr-restore-attempt"), add>>
      IN
      IF AddSucceeds(refs, w, add.path, add.branch, add.flag, e.add)
      THEN Outcome(refs \cup {add.branch}, Append(w, [path |-> add.path, branch |-> add.branch]),
                   stateFile, "restored", <<>>, addLog \o <<Call("stderr-restored")>>)
      ELSE Outcome(refs, w, stateFile, "restored", <<>>, addLog \o <<Call("stderr-restored")>>)

\* RemoveWorktreeAndBranch from line 142 on: the worktree is removed (w is
\* the listing without it); delete the branch, restore the worktree on failure
DeleteOrRestore(branchName, force, worktreePath, w, log, e) ==
    LET delLog == log \o <<Ev("delete", <<>>, branchName, force)>> IN
    IF DeleteSucceeds(refs, w, branchName, e.delete)
    THEN Outcome(refs \ {branchName}, w, stateFile, "ok", <<>>,
                 delLog \o <<Call("stderr-branch-delete")>>)
    ELSE
      LET add == RecreateArgs(worktreePath, branchName)
          addLog == delLog \o <<Call("stderr-err-delete"), Call("stderr-restore-attempt"), add>>
      IN
      IF AddSucceeds(refs, w, add.path, add.branch, add.flag, e.add)
      THEN Outcome(refs \cup {add.branch}, Append(w, [path |-> add.path, branch |-> add.branch]),
                   stateFile, "restored", <<>>, addLog \o <<Call("stderr-restored")>>)
      ELSE Outcome(refs, w, stateFile, "fatal", <<>>, addLog \o <<Call("stderr-fatal")>>)

AfterRemoveNoReturn(branchName, force, worktreePath, rmLog, e) ==
    IF ~RemoveSucceeds(wts, worktreePath, e.remove)
    THEN DeleteOrRestore(branchName, force, worktreePath, wts,
                         rmLog \o <<Call("stderr-err-remove")>>, e)
    ELSE DeleteOrRestore(branchName, force, worktreePath, Without(wts, worktreePath),
                         rmLog \o <<Call("stderr-worktree-remove")>>, e)

\* RemoveWorktreeAndBranch from line 127 on: the outcome of git worktree
\* remove; its failure is printed and ends the invocation
AfterRemove(branchName, force, worktreePath, rmLog, e) ==
    IF ~RemoveSucceeds(wts, worktreePath, e.remove)
    THEN Outcome(refs, wts, stateFile, "err-remove", <<>>,
                 rmLog \o <<Call("stderr-err-remove")>>)
    ELSE DeleteOrRestore(branchName, force, worktreePath, Without(wts, worktreePath),
                         rmLog \o <<Call("stderr-worktree-remove")>>, e)

\* RemoveWorktreeAndBranch; found is what FindWorktreePathForBranch returns
\* on the listing of the current worktrees
RemoveWorktreeAndBranch(branchName, force, found, e) ==
    IF branchName = <<>>
    THEN Outcome(refs, wts, stateFile, "err-empty", <<>>, <<Call("stderr-err-empty")>>)
    ELSE IF IsProtected(branchName)
    THEN Outcome(refs, wts, stateFile, "err-protected", <<>>, <<Call("stderr-err-protected")>>)
    ELSE IF ~GitRuns(wts, cwd) \/ e.list
    THEN Outcome(refs, wts, stateFile, "err-list", <<>>,
                 <<Call("list"), Call("stderr-err-list")>>)
    ELSE
      LET worktreePath == found
          rmLog == <<Call("list"), Ev("remove", worktreePath, <<>>, force)>>
      IN
      IF worktreePath = <<>>
      THEN Outcome(refs, wts, stateFile, "err-notfound", <<>>,
                   <<Call("list"), Call("stderr-err-notfound")>>)
      ELSE AfterRemove(branchName, force, worktreePath, rmLog, e)

StateIsEmptyNever(path) == FALSE

\* the stored value counts as absent
StateIsEmpty(path) == path = <<>>

\* SwitchToPreviousWorktree: out "ok" returns path, every other out is its error
SwitchToPreviousWorktree(e) ==
    LET common == <<Call("git-common-dir")>>
        read == common \o <<Call("read")>>
        path == TrimSpace(stateFile.content)
    IN
    IF ~GitRuns(wts, cwd) \/ e.common
    THEN Outcome(refs, wts, stateFile, "err-statepath", <<>>, common)
    ELSE IF ~stateFile.exists
    THEN Outcome(refs, wts, stateFile, "err-nostate", <<>>, read)
    ELSE IF e.read
    THEN Outcome(refs, wts, stateFile, "err-read", <<>>, read)
    ELSE IF StateIsEmpty(path)
    THEN Outcome(refs, wts, stateFile, "err-emptystate", <<>>, read)
    ELSE
      LET s == SaveWithWarning(stateFile, cwd, TRUE, e) IN
      Outcome(refs, wts, s.file, "ok", path, read \o s.log)

\* ListWorktrees as an invocation: names are the lines printed after the heading
ListInvocation(e) ==
    IF ~GitRuns(wts, cwd) \/ e.list
    THEN Outcome(refs, wts, stateFile, "err-list", <<>>,
                 <<Call("list"), Call("stderr-err-list")>>)
    ELSE [Outcome(refs, wts, stateFile, "ok", <<>>, <<Call("list")>>)
            EXCEPT !.names = ListWorktrees(RenderListing(wts))]

(***************************************************************************)
(* Actions                                                                 *)
(***************************************************************************)
NoOut == [op |-> "none"]
NoRace == [procs |-> <<>>, hist |-> <<>>]

Init ==
    /\ refs \in {{Main}, {Main, BrAB}}
    /\ wts = <<[path |-> RepoRoot, branch |-> Main]>>
    /\ stateFile = Missing
    /\ cwd = RepoRoot
    /\ last = [op |-> "none", branch |-> <<>>, force |-> FALSE, wd |-> <<>>,
               out |-> "none", path |-> <<>>, names |-> <<>>, log |-> <<>>]
    /\ tick = 0
    /\ pRecs = <<>>
    /\ pOut = NoOut
    /\ race = NoRace

\* one invocation op with outcome o
Invoke(op, branchName, force, o) ==
    /\ refs' = o.refs
    /\ wts' = o.wts
    /\ stateFile' = o.file
    /\ last' = [op |-> op, branch |-> branchName, force |-> force, wd |-> cwd,
                out |-> o.out, path |-> o.path, names |-> o.names, log |-> o.log]
    /\ tick' = 1 - tick
    /\ UNCHANGED <<cwd, pRecs, pOut, race>>

\* wtgo <branch>
Create ==
    \E b \in CreateArgs :
        \E found \in {FindWorktreePathForBranch(RenderListing(wts), b)} :
        \E o \in {CreateWorktreeAndBranch(b, found, e) : e \in CreateEnvs} :
            Invoke("create", b, FALSE, o)

\* wtgo --rm <branch>, with and without force
Remove ==
    \E b \in RemoveArgs :
        \E found \in {FindWorktreePathForBranch(RenderListing(wts), b)} :
        \E force \in BOOLEAN :
            \E o \in {RemoveWorktreeAndBranch(b, force, found, e) : e \in RemoveEnvs} :
                Invoke("remove", b, force, o)

\* wtgo -
Prev ==
    \E o \in {SwitchToPreviousWorktree(e) : e \in PrevEnvs} :
        Invoke("prev", <<>>, FALSE, o)

\* wtgo
List ==
    \E o \in {ListInvocation(e) : e \in ListEnvs} :
        Invoke("list", <<>>, FALSE, o)

\* the shell changes directory: to a worktree or to a directory of the main one
Chdir ==
    \E d \in StaticDirs \cup {wts[i].path : i \in 1..Len(wts)} :
        /\ d # cwd
        /\ cwd' = d
        /\ UNCHANGED <<refs, wts, stateFile, last, tick, pRecs, pOut, race>>

Next == Create \/ Remove \/ Prev \/ List \/ Chdir

Spec == Init /\ [][Next]_vars

(***************************************************************************)
(* The registry reader on its own, on listings of up to MaxRecords records *)
(* that need not come from a repository: records may share a branch or a   *)
(* path, and the text may end without the blank line.                      *)
(***************************************************************************)
PPaths == {RepoRoot, <<"/", "w">>}
PBranches == {NoBranch, <<"f">>, BrAB}
PQueries == {<<>>, <<"f">>, BrAB, Main}

\* a record is added to the listing, whose earlier results no longer stand
PAddRecord ==
    \E path \in PPaths, branch \in PBranches :
        /\ Len(pRecs) < MaxRecords
        /\ pRecs' = Append(pRecs, [path |-> path, branch |-> branch])
        /\ pOut' = NoOut
        /\ UNCHANGED <<refs, wts, stateFile, cwd, last, tick, race>>

\* FindWorktreePathForBranch(branchName) on the listing
PFind ==
    \E branchName \in PQueries, term \in Terminators :
        /\ pOut' = [op |-> "find", term |-> term, query |-> branchName,
                    path |-> FindWorktreePathForBranch(ListingText(pRecs, term), branchName),
                    names |-> <<>>]
        /\ UNCHANGED <<pRecs, refs, wts, stateFile, cwd, last, tick, race>>

\* ListWorktrees on the listing
PList ==
    \E term \in Terminators :
        /\ pOut' = [op |-> "list", term |-> term, query |-> <<>>, path |-> <<>>,
                    names |-> ListWorktrees(ListingText(pRecs, term))]
        /\ UNCHANGED <<pRecs, refs, wts, stateFile, cwd, last, tick, race>>

ParseNext == PAddRecord \/ PFind \/ PList

ParseSpec == Init /\ [][ParseNext]_vars

(***************************************************************************)
(* Two invocations wtgo <branch> at once                                   *)
(* Each is a process of its own with its own working directory; nothing    *)
(* in the code locks the repository or the state file, so the git.Exec     *)
(* calls and the file operations of the two interleave freely.  One step   *)
(* is one git.Exec call or one file operation; none of them fails here on  *)
(* its own account, only on what the other invocation did.                 *)
(***************************************************************************)
Procs == {1, 2}
RaceDirs == {RepoRoot, SpaceDir}
RaceBranch == BrAB

\* an invocation before its first call, started in directory wd
Started(wd) ==
    [pc |-> "list", wd |-> wd, found |-> <<>>, path |-> <<>>, exists |-> FALSE,
     add |-> Call("none"), out |-> "none"]

RaceInit ==
    /\ refs \in {{Main}, {Main, RaceBranch}}
    /\ wts = <<[path |-> RepoRoot, branch |-> Main]>>
    /\ stateFile \in {Missing, Stored(GitDir)}
    /\ cwd = RepoRoot
    /\ last = [op |-> "none", branch |-> <<>>, force |-> FALSE, wd |-> <<>>,
               out |-> "none", path |-> <<>>, names |-> <<>>, log |-> <<>>]
    /\ tick = 0
    /\ pRecs = <<>>
    /\ pOut = NoOut
    /\ \E d1 \in RaceDirs, d2 \in RaceDirs :
           race = [procs |-> <<Started(d1), Started(d2)>>, hist |-> <<>>]

\* process p moves on as np; hist records what it just did
RStep(p, np, did) ==
    race' = [procs |-> [race.procs EXCEPT ![p] = np],
             hist |-> Append(race.hist, [proc |-> p, did |-> did])]

\* where an invocation goes once its save is over (lines 54-59)
AfterSave(me) ==
    IF me.found # <<>>
    THEN [me EXCEPT !.pc = "done", !.out = "ok", !.path = me.found]
    ELSE [me EXCEPT !.pc = "root"]

\* line 23: the listing is read and searched; lines 29-46 decide on the save
RList ==
    \E p \in DOMAIN race.procs :
        LET me == race.procs[p] IN
        /\ me.pc = "list"
        /\ \E found \in {FindWorktreePathForBranch(RenderListing(wts), RaceBranch)} :
               RStep(p, IF IsSwitching(found, me.wd, FALSE)
                        THEN [me EXCEPT !.found = found, !.pc = "save"]
                        ELSE AfterSave([me EXCEPT !.found = found]),
                     "list")
        /\ UNCHANGED <<refs, wts, stateFile, cwd, last, tick, pRecs, pOut>>

\* saveCurrentWorktreeState up to line 301: the state file is read and compared
RSaveRead ==
    \E p \in DOMAIN race.procs :
        LET me == race.procs[p] IN
        /\ me.pc = "save"
        /\ IF SaveSkips(stateFile, me.wd)
           THEN RStep(p, AfterSave(me), "saved")
           ELSE RStep(p, [me EXCEPT !.pc = "write"], "read")
        /\ UNCHANGED <<refs, wts, stateFile, cwd, last, tick, pRecs, pOut>>

\* saveCurrentWorktreeState line 306: the state file is written
RSaveWrite ==
    \E p \in DOMAIN race.procs :
        LET me == race.procs[p] IN
        /\ me.pc = "write"
        /\ stateFile' = Stored(me.wd)
        /\ RStep(p, AfterSave(me), "saved")
        /\ UNCHANGED <<refs, wts, cwd, last, tick, pRecs, pOut>>

\* lines 59-71: the repository root is asked for, the target path computed
RRoot ==
    \E p \in DOMAIN race.procs :
        LET me == race.procs[p] IN
        /\ me.pc = "root"
        /\ RStep(p, [me EXCEPT !.pc = "verify",
                               !.path = NewWorktreePath(TrimSpace(ShowToplevel(wts, me.wd)),
                                                        RaceBranch)],
                 "root")
        /\ UNCHANGED <<refs, wts, stateFile, cwd, last, tick, pRecs, pOut>>

\* lines 73-74: does the branch exist
RVerify ==
    \E p \in DOMAIN race.procs :
        LET me == race.procs[p] IN
        /\ me.pc = "verify"
        /\ RStep(p, [me EXCEPT !.pc = "add", !.exists = RaceBranch \in refs], "verify")
        /\ UNCHANGED <<refs, wts, stateFile, cwd, last, tick, pRecs, pOut>>

\* lines 76-96: git worktree add
RAdd ==
    \E p \in DOMAIN race.procs :
        LET me == race.procs[p]
            add == AddArgs(me.exists, me.path, RaceBranch)
        IN
        /\ me.pc = "add"
        /\ IF AddSucceeds(refs, wts, add.path, add.branch, add.flag, FALSE)
           THEN /\ refs' = refs \cup {add.branch}
                /\ wts' = Append(wts, [path |-> add.path, branch |-> add.branch])
                /\ RStep(p, [me EXCEPT !.pc = "done", !.add = add, !.out = "ok"], "add-ok")
           ELSE /\ UNCHANGED <<refs, wts>>
                /\ RStep(p, [me EXCEPT !.pc = "done", !.add = add, !.out = "err-add"],
                         "add-failed")
        /\ UNCHANGED <<stateFile, cwd, last, tick, pRecs, pOut>>

RaceNext == RList \/ RSaveRead \/ RSaveWrite \/ RRoot \/ RVerify \/ RAdd

RaceSpec == RaceInit /\ [][RaceNext]_vars

(***************************************************************************)
(* The caller that follows: cd $(wtgo <branch>), cd $(wtgo -)              *)
(* The shell changes to the directory an invocation printed and stays      *)
(* where it is when the invocation reported an error or printed a path     *)
(* that is no directory.                                                   *)
(***************************************************************************)
\* the directory of the shell after an invocation with outcome o
Follow(o) ==
    IF o.out = "ok" /\ o.path \in StaticDirs \cup {o.wts[i].path : i \in 1..Len(o.wts)}
    THEN o.path
    ELSE cwd

\* one invocation op with outcome o, followed by the shell
InvokeAndFollow(op, branchName, o) ==
    /\ refs' = o.refs
    /\ wts' = o.wts
    /\ stateFile' = o.file
    /\ last' = [op |-> op, branch |-> branchName, force |-> FALSE, wd |-> cwd,
                out |-> o.out, path |-> o.path, names |-> o.names, log |-> o.log]
    /\ tick' = 1 - tick
    /\ cwd' = Follow(o)
    /\ UNCHANGED <<pRecs, pOut, race>>

\* cd $(wtgo <branch>)
CreateAndFollow ==
    \E b \in CreateArgs :
        \E found \in {FindWorktreePathForBranch(RenderListing(wts), b)} :
        \E o \in {CreateWorktreeAndBranch(b, found, e) : e \in CreateEnvs} :
            InvokeAndFollow("create", b, o)

\* cd $(wtgo -)
PrevAndFollow ==
    \E o \in {SwitchToPreviousWorktree(e) : e \in PrevEnvs} :
        InvokeAndFollow("prev", <<>>, o)

FollowNext == CreateAndFollow \/ PrevAndFollow

FollowSpec == Init /\ [][FollowNext]_vars

(***************************************************************************)
(* Properties                                                              *)
(***************************************************************************)
\* the entries of log of the kinds in K, in order
RECURSIVE Only(_, _)
Only(log, K) ==
    IF log = <<>> THEN <<>>
    ELSE (IF Head(log).kind \in K THEN <<Head(log)>> ELSE <<>>) \o Only(Tail(log), K)

\* the position of the first entry of kind k in log, 0 when there is none
RECURSIVE FirstAt(_, _, _)
FirstAt(log, k, i) ==
    IF i > Len(log) THEN 0
    ELSE IF log[i].kind = k THEN i
    ELSE FirstAt(log, k, i + 1)

Has(log, k) == FirstAt(log, k, 1) > 0

\* the step is an invocation of op
Invoked(op) == tick' # tick /\ last'.op = op

\* the path and the branches of a listing's records, read off the records
\* themselves: the path of the first record of branch b, <<>> when none has it
RECURSIVE FirstPathOf(_, _)
FirstPathOf(recs, b) ==
    IF recs = <<>> THEN <<>>
    ELSE IF Head(recs).branch = b THEN Head(recs).path
    ELSE FirstPathOf(Tail(recs), b)

\* the branch names of the records, each at its first occurrence
RECURSIVE FirstBranches(_, _)
FirstBranches(recs, seen) ==
    IF recs = <<>> THEN <<>>
    ELSE IF Head(recs).branch = NoBranch \/ Head(recs).branch \in seen
         THEN FirstBranches(Tail(recs), seen)
    ELSE <<Head(recs).branch>> \o FirstBranches(Tail(recs), seen \cup {Head(recs).branch})

\* the rollback of a Remove whose branch deletion failed, up to the order of
\* the recreation and the report of the deletion error
RollbackCall(l) ==
    LET adds == Only(l.log, {"add"})
        rms == Only(l.log, {"remove"})
    IN /\ Len(rms) = 1
       /\ Len(adds) = 1
       /\ adds[1] = Ev("add", rms[1].path, l.branch, FALSE)
       /\ FirstAt(l.log, "remove", 1) < FirstAt(l.log, "delete", 1)
       /\ FirstAt(l.log, "delete", 1) < FirstAt(l.log, "add", 1)

DeleteFailed(l) == l.op = "remove" /\ l.out \in {"restored", "fatal"}

\* C1 as claimed: when remove-worktree succeeded and delete-branch failed,
\* Remove issues exactly one add-worktree call, for the removed path and the
\* same branch without -b, and issues it before it reports the deletion error.
C1_AsClaimed ==
    DeleteFailed(last) =>
        /\ RollbackCall(last)
        /\ FirstAt(last.log, "add", 1) < FirstAt(last.log, "stderr-err-delete", 1)

\* C1 amended: when remove-worktree succeeded and delete-branch failed, Remove
\* issues exactly one add-worktree call, for the removed path and the same
\* branch without -b; the deletion error is written to stderr before that
\* call, and the result of the recreation is reported after it.
C1_Rollback ==
    DeleteFailed(last) =>
        /\ RollbackCall(last)
        /\ Has(last.log, "stderr-err-delete")
        /\ FirstAt(last.log, "stderr-err-delete", 1) < FirstAt(last.log, "add", 1)
        /\ FirstAt(last.log, "add", 1) < Len(last.log)

C1_Witness ==
    /\ last.op = "remove"
    /\ last.out = "restored"
    /\ CheckedOut(wts, last.branch)

\* a toggle whose save of the current directory returned no error
ToggledOk(l) == l.op = "prev" /\ l.out = "ok" /\ ~Has(l.log, "warn-save")

\* C2 Toggle symmetry: with stored state A, switchToPrevious() from B # A
\* returns A and leaves B stored; a following switchToPrevious() from A
\* returns B.  Read with every save succeeding.
C2_ToggleSymmetry ==
    [][ /\ (/\ Invoked("prev")
            /\ ToggledOk(last')
            /\ stateFile.content # cwd)
           => (last'.path = stateFile.content /\ stateFile' = Stored(cwd))
        /\ (/\ ToggledOk(last)
            /\ last.wd # last.path
            /\ cwd = last.path
            /\ Invoked("prev")
            /\ ToggledOk(last'))
           => last'.path = last.wd ]_vars

\* createOrSwitch(b) for a branch name b the listing (which succeeded) does not hold
CreatedAbsent ==
    /\ Invoked("create")
    /\ last'.branch # <<>>
    /\ last'.out # "err-list"
    /\ ~CheckedOut(wts, last'.branch)

\* one verify, one add-worktree, with -b exactly when verify found no ref
OneVerifyOneAdd(log) ==
    LET verifies == Only(log, {"verify"})
        adds == Only(log, {"add"})
    IN /\ Len(verifies) = 1
       /\ Len(adds) = 1
       /\ adds[1].flag = ~verifies[1].flag
       /\ adds[1].branch = verifies[1].branch

\* C3 as claimed: for every branch b not in the listing, createOrSwitch(b)
\* issues exactly one verify and exactly one add-worktree call, the latter
\* with -b iff verify reported the ref absent.
C3_AsClaimed ==
    [][ CreatedAbsent => OneVerifyOneAdd(last'.log) ]_vars

\* C3 amended: for every non-empty branch b not in the listing,
\* createOrSwitch(b) issues exactly one verify and exactly one add-worktree
\* call, the latter with -b iff verify reported the ref absent, when
\* rev-parse --show-toplevel succeeds; when it fails, it issues neither and
\* changes neither refs nor worktrees.
C3_CreateCalls ==
    [][ CreatedAbsent =>
            IF last'.out = "err-root"
            THEN /\ Only(last'.log, {"verify", "add"}) = <<>>
                 /\ refs' = refs /\ wts' = wts
            ELSE /\ OneVerifyOneAdd(last'.log)
                 /\ Only(last'.log, {"add"})[1].branch = last'.branch ]_vars

C3_Witness ==
    /\ last.op = "create"
    /\ last.out = "ok"
    /\ Len(Only(last.log, {"verify"})) = 1
    /\ \E i \in 1..Len(last.log) : last.log[i].kind = "add" /\ last.log[i].flag

\* C4: for a branch b with a worktree in the listing, createOrSwitch(b)
\* issues no add-worktree, remove-worktree or delete-branch call and returns
\* the path of b's record.
C4_ExistingNoMutation ==
    [][ (/\ Invoked("create")
         /\ last'.branch # <<>>
         /\ last'.out # "err-list"
         /\ CheckedOut(wts, last'.branch))
        => /\ Only(last'.log, MutatingKinds) = <<>>
           /\ last'.out = "ok"
           /\ last'.path = FirstPathOf(wts, last'.branch)
           /\ refs' = refs /\ wts' = wts ]_vars

C4_Witness ==
    /\ last.op = "create"
    /\ last.branch = BrAB
    /\ last.out = "ok"
    /\ ~Has(last.log, "add")
    /\ last.path = FirstPathOf(wts, BrAB)
    /\ last.path # <<>>

\* C5: Remove("main", force) and Remove("master", force) fail with the
\* protected-branch error and issue no VCS call at all; refs, worktrees and
\* the toggle state are unchanged.
C5_ProtectedGuard ==
    [][ (Invoked("remove") /\ last'.branch \in {Main, Master})
        => /\ last'.out = "err-protected"
           /\ Only(last'.log, VcsKinds) = <<>>
           /\ refs' = refs /\ wts' = wts /\ stateFile' = stateFile ]_vars

C5_Witness ==
    /\ last.op = "remove"
    /\ last.branch = Master
    /\ last.force
    /\ last.out = "err-protected"

\* an invocation that called saveCurrentWorktreeState, which returned nil
SavedOk(l) == Has(l.log, "save") /\ ~Has(l.log, "warn-save")

\* C6 Toggle idempotence: a save from directory p that follows a successful
\* save from the same p performs no write of the state file.
C6_SaveIdempotent ==
    [][ (/\ SavedOk(last)
         /\ tick' # tick
         /\ Has(last'.log, "save")
         /\ last'.wd = last.wd)
        => Only(last'.log, {"write"}) = <<>> ]_vars

\* C7: enumeration yields each branch name once, in the order of first
\* appearance in the listing, and lookup of a branch returns the path of the
\* first record that carries it.
C7_FirstOccurrence ==
    /\ pOut.op = "list" => pOut.names = FirstBranches(pRecs, {})
    /\ (pOut.op = "find" /\ pOut.query # <<>>) => pOut.path = FirstPathOf(pRecs, pOut.query)

C7_Witness ==
    /\ pOut.op = "list"
    /\ Len(pRecs) = 2
    /\ pRecs[1].branch = pRecs[2].branch
    /\ pRecs[1].branch # NoBranch
    /\ pRecs[1].path # pRecs[2].path
    /\ pOut.names = <<pRecs[1].branch>>

\* the last record of the listing carries branch b and no earlier record does
LastRecordOnly(recs, b) ==
    /\ recs # <<>>
    /\ b # NoBranch
    /\ recs[Len(recs)].branch = b
    /\ \A i \in 1..(Len(recs) - 1) : recs[i].branch # b

\* C8: when the listing does not end with a blank line, the last record is
\* still yielded: lookup of its branch returns its path, and enumeration
\* ends with its branch.
C8_FlushAtEnd ==
    /\ (pOut.op = "find" /\ pOut.term # "blank" /\ LastRecordOnly(pRecs, pOut.query))
       => pOut.path = pRecs[Len(pRecs)].path
    /\ (pOut.op = "list" /\ pOut.term # "blank" /\ pRecs # <<>>
        /\ LastRecordOnly(pRecs, pRecs[Len(pRecs)].branch))
       => (pOut.names # <<>> /\ pOut.names[Len(pOut.names)] = pRecs[Len(pRecs)].branch)

C8_Witness ==
    /\ pOut.op = "find"
    /\ pOut.term = "none"
    /\ Len(pRecs) = 2
    /\ LastRecordOnly(pRecs, pOut.query)
    /\ pOut.path = pRecs[2].path
    /\ pRecs[1].path # pRecs[2].path

\* C9: Remove(b, force) of a non-empty, non-protected b without a worktree
\* in the listing ends with the not-found error and issues no add-worktree,
\* remove-worktree or delete-branch call, whether or not b's ref exists.
C9_RemoveNotFound ==
    [][ (/\ Invoked("remove")
         /\ last'.branch \notin {<<>>, Main, Master}
         /\ last'.out # "err-list"
         /\ ~CheckedOut(wts, last'.branch))
        => /\ last'.out = "err-notfound"
           /\ Only(last'.log, MutatingKinds) = <<>>
           /\ refs' = refs /\ wts' = wts ]_vars

C9_Witness ==
    /\ last.op = "remove"
    /\ last.out = "err-notfound"
    /\ last.branch \in refs
    /\ ~CheckedOut(wts, last.branch)

\* C10: switchToPrevious() fails when the state file is missing or holds
\* only whitespace; it then returns no path and does not write the file.
C10_NoPrevious ==
    [][ (/\ Invoked("prev")
         /\ (~stateFile.exists \/ TrimSpace(stateFile.content) = <<>>))
        => /\ last'.out # "ok"
           /\ last'.path = <<>>
           /\ Only(last'.log, {"write"}) = <<>>
           /\ stateFile' = stateFile ]_vars

C10_Witness ==
    /\ last.op = "prev"
    /\ last.out = "err-emptystate"
    /\ stateFile.exists
    /\ stateFile.content = <<>>

\* C11: in Remove the delete-branch call is issued only after the
\* remove-worktree call succeeded; when the remove-worktree call fails, Remove
\* reports that error and issues no delete-branch and no add-worktree call,
\* and the ref and the worktrees stay as they were.
C11_RemoveBeforeDelete ==
    [][ Invoked("remove")
        => /\ Has(last'.log, "delete")
              => /\ Has(last'.log, "stderr-worktree-remove")
                 /\ ~Has(last'.log, "stderr-err-remove")
                 /\ FirstAt(last'.log, "remove", 1)
                      < FirstAt(last'.log, "stderr-worktree-remove", 1)
                 /\ FirstAt(last'.log, "stderr-worktree-remove", 1)
                      < FirstAt(last'.log, "delete", 1)
           /\ Has(last'.log, "stderr-err-remove")
              => /\ last'.out = "err-remove"
                 /\ Only(last'.log, {"delete", "add"}) = <<>>
                 /\ refs' = refs /\ wts' = wts ]_vars

C11_Witness ==
    /\ last.op = "remove"
    /\ last.out = "err-remove"
    /\ Len(Only(last.log, {"remove"})) = 1
    /\ last.branch \in refs
    /\ CheckedOut(wts, last.branch)

\* C12: a Remove reports the fatal inconsistency, an outcome of its own next
\* to the VCS errors, exactly when the remove-worktree call succeeded, the
\* delete-branch call failed and the add-worktree call of the rollback failed
\* too; the branch ref is then present and no worktree of the branch exists.
\* No other operation reports it.
C12_FatalOnFailedRollback ==
    [][ (tick' # tick)
        => LET l == last'
               rolledBackInVain ==
                   /\ l.op = "remove"
                   /\ Has(l.log, "stderr-worktree-remove")
                   /\ Has(l.log, "stderr-err-delete")
                   /\ Has(l.log, "add")
                   /\ ~PathInUse(wts', Only(l.log, {"remove"})[1].path)
           IN /\ Has(l.log, "stderr-fatal") <=> rolledBackInVain
              /\ l.out = "fatal" <=> rolledBackInVain
              /\ rolledBackInVain
                 => /\ ~Has(l.log, "stderr-restored")
                    /\ ~Has(l.log, "stderr-err-remove")
                    /\ l.out \notin {"err-list", "err-remove", "err-notfound", "restored", "ok"}
                    /\ l.branch \in refs'
                    /\ ~CheckedOut(wts', l.branch) ]_vars

C12_Witness ==
    /\ last.op = "remove"
    /\ last.out = "fatal"
    /\ Has(last.log, "stderr-fatal")
    /\ last.branch \in refs
    /\ ~CheckedOut(wts, last.branch)

\* a createOrSwitch(b) for a b without worktree that failed after its listing
FailedCreate(l, w) ==
    /\ l.op = "create"
    /\ l.branch # <<>>
    /\ ~CheckedOut(w, l.branch)
    /\ l.out \in {"err-root", "err-add"}

\* C13 as claimed: createOrSwitch(b) for a b without worktree saves the
\* current directory before it attempts the add-worktree call, and after a
\* failed operation the stored toggle state is the directory it was invoked
\* from.
C13_AsClaimed ==
    [][ (Invoked("create") /\ FailedCreate(last', wts))
        => /\ Has(last'.log, "save")
           /\ Has(last'.log, "add")
              => FirstAt(last'.log, "save", 1) < FirstAt(last'.log, "add", 1)
           /\ stateFile' = Stored(cwd) ]_vars

\* C13 amended: createOrSwitch(b) for a b without worktree attempts the save
\* of the current directory before the repository root is asked for and
\* before the add-worktree call; when the operation then fails, nothing
\* after the save changes the state: refs and worktrees are as before, and
\* the stored toggle state is the directory the operation was invoked from
\* if the save returned no error.  A save that failed is only warned about
\* and leaves the state file as it was, or truncated.
C13_SavedBeforeAdd ==
    [][ (Invoked("create") /\ FailedCreate(last', wts))
        => /\ Has(last'.log, "save")
           /\ FirstAt(last'.log, "save", 1) < FirstAt(last'.log, "show-toplevel", 1)
           /\ Has(last'.log, "add")
              => FirstAt(last'.log, "save", 1) < FirstAt(last'.log, "add", 1)
           /\ refs' = refs /\ wts' = wts
           /\ ~Has(last'.log, "warn-save") => stateFile' = Stored(cwd)
           /\ Has(last'.log, "warn-save") => stateFile' \in {stateFile, Stored(<<>>)} ]_vars

C13_Witness ==
    /\ last.op = "create"
    /\ last.out = "err-add"
    /\ ~CheckedOut(wts, last.branch)
    /\ ~Has(last.log, "warn-save")
    /\ Only(last.log, {"write"}) # <<>>
    /\ stateFile = Stored(cwd)
    /\ cwd # RepoRoot

\* C14: createOrSwitch(b) for a b whose worktree is at the current directory
\* makes no toggle-state update and reports the found path; createOrSwitch
\* attempts a save, and changes the state file, only when the found path
\* differs from the current directory or no worktree was found.
C14_NoSaveOnSelf ==
    [][ Invoked("create")
        => LET found == FirstPathOf(wts, last'.branch)
               listed == last'.branch # <<>> /\ last'.out # "err-list"
           IN /\ (listed /\ found # <<>> /\ found = cwd)
                 => /\ last'.out = "ok"
                    /\ last'.path = found
                    /\ ~Has(last'.log, "save")
                    /\ Only(last'.log, {"write"}) = <<>>
                    /\ stateFile' = stateFile
              /\ (Has(last'.log, "save") \/ stateFile' # stateFile)
                 => (listed /\ (found = <<>> \/ found # cwd)) ]_vars

C14_Witness ==
    /\ last.op = "create"
    /\ last.out = "ok"
    /\ last.path = cwd
    /\ last.wd = cwd
    /\ cwd # RepoRoot
    /\ FirstPathOf(wts, last.branch) = cwd
    /\ ~Has(last.log, "save")
    /\ stateFile = Stored(RepoRoot)

\* name is one of names
Among(names, name) == \E k \in 1..Len(names) : names[k] = name

\* C15: lookup agrees with enumeration: on every listing and for every
\* argument b, findPathForBranch(b) returns a non-empty path exactly when b
\* is among the names the enumeration yields for that listing, and the empty
\* path otherwise.
C15_LookupAgreesWithList ==
    pOut.op = "find"
        => (pOut.path # <<>>
              <=> Among(ListWorktrees(ListingText(pRecs, pOut.term)), pOut.query))

\* C16: records without a branch line are skipped by the lookup: for every
\* listing and every argument, the empty string included, a returned path is
\* the path of a record that has a branch line, the one naming the argument.
C16_DetachedSkipped ==
    (pOut.op = "find" /\ pOut.path # <<>>)
        => \E i \in 1..Len(pRecs) :
              /\ pRecs[i].branch # NoBranch
              /\ pRecs[i].branch = pOut.query
              /\ pRecs[i].path = pOut.path

\* C17: a save of the toggle state that fails during createOrSwitch or
\* switchToPrevious is only warned about and does not change the outcome:
\* createOrSwitch goes on to report the existing path or to create the
\* worktree, and switchToPrevious returns the stored path.
C17_SaveFailureSwallowed ==
    [][ (tick' # tick /\ Has(last'.log, "warn-save"))
        => LET l == last'
               found == FirstPathOf(wts, l.branch)
           IN /\ l.op \in {"create", "prev"}
              /\ (l.op = "create" /\ found # <<>>)
                 => /\ l.out = "ok"
                    /\ l.path = found
              /\ (l.op = "create" /\ found = <<>>)
                 => /\ FirstAt(l.log, "warn-save", 1) < FirstAt(l.log, "show-toplevel", 1)
                    /\ l.out \in {"ok", "err-root", "err-add"}
                    /\ l.out = "err-root" <=> ~Has(l.log, "add")
                    /\ l.out = "ok" <=> (Has(l.log, "add") /\ ~Has(l.log, "stderr-err-add"))
                    /\ l.out = "ok"
                       => /\ l.path = Only(l.log, {"add"})[1].path
                          /\ FirstPathOf(wts', l.branch) = l.path
              /\ l.op = "prev"
                 => /\ l.out = "ok"
                    /\ l.path = TrimSpace(stateFile.content)
                    /\ l.path # <<>> ]_vars

C17_Witness ==
    /\ last.op = "create"
    /\ Has(last.log, "warn-save")
    /\ Has(last.log, "add")
    /\ last.out = "ok"
    /\ FirstPathOf(wts, last.branch) = last.path
    /\ stateFile # Stored(last.wd)

\* the kinds of log entries that touch the toggle state file
StateKinds == {"save", "git-common-dir", "read", "write", "warn-save"}

\* C18: Remove never reads, writes or deletes the toggle state, so the state
\* file is the same after every Remove; and a switchToPrevious() that
\* succeeds returns the stored path whether or not a worktree is still at it,
\* in particular a path whose worktree a Remove has removed.
C18_RemoveLeavesState ==
    [][ /\ Invoked("remove")
           => /\ stateFile' = stateFile
              /\ Only(last'.log, StateKinds) = <<>>
        /\ (Invoked("prev") /\ stateFile.exists /\ TrimSpace(stateFile.content) # <<>>
            /\ last'.out \notin {"err-statepath", "err-read"})
           => /\ last'.out = "ok"
              /\ last'.path = TrimSpace(stateFile.content) ]_vars

C18_Witness ==
    /\ last.op = "prev"
    /\ last.out = "ok"
    /\ last.path = NewWorktreePath(RepoRoot, BrAB)
    /\ ~PathInUse(wts, last.path)
    /\ BrAB \notin refs

\* C20: from a state where b has a ref and a worktree at p, every Remove(b)
\* that does not end in the fatal inconsistency leaves both gone (success) or
\* both in place, the worktree of b at the same path p; a worktree whose
\* branch ref is deleted is never reached.
C20_RemoveConsistent ==
    [][ /\ (/\ Invoked("remove")
            /\ last'.branch \in refs
            /\ CheckedOut(wts, last'.branch)
            /\ last'.out # "fatal")
           => LET b == last'.branch
                  p == FirstPathOf(wts, b)
              IN IF last'.out = "ok"
                 THEN b \notin refs' /\ ~CheckedOut(wts', b) /\ ~PathInUse(wts', p)
                 ELSE b \in refs' /\ CheckedOut(wts', b) /\ FirstPathOf(wts', b) = p
        /\ \A i \in 1..Len(wts') : wts'[i].branch \in refs' ]_vars

C20_Witness ==
    /\ last.op = "remove"
    /\ last.out = "restored"
    /\ last.branch \in refs
    /\ FirstPathOf(wts, last.branch) = Only(last.log, {"remove"})[1].path

\* the position of the last entry of hist with did in D, 0 when there is none
RECURSIVE LastDid(_, _, _)
LastDid(hist, D, i) ==
    IF i = 0 THEN 0
    ELSE IF hist[i].did \in D THEN i
    ELSE LastDid(hist, D, i - 1)

\* process p saw no worktree of the branch and has issued its add call
AddedUnseen(p) ==
    /\ race.procs[p].pc = "done"
    /\ race.procs[p].found = <<>>
    /\ race.procs[p].add.kind = "add"

\* C19: two createOrSwitch(b) at once, for a b without worktree, are not
\* kept apart by any lock: an invocation that saw b absent goes on to its
\* add-worktree call for the one target path of b whatever the other did in
\* between, so both can issue it (at most one of the two calls succeeds); and
\* the saves being unordered against the other's calls, the stored state is
\* at every moment the directory of the invocation whose save ended last.
C19_RaceUnlocked ==
    /\ \A p \in DOMAIN race.procs :
           (race.procs[p].pc = "done" /\ race.procs[p].found = <<>>)
               => /\ race.procs[p].add = Ev("add", NewWorktreePath(RepoRoot, RaceBranch),
                                            RaceBranch, ~race.procs[p].exists)
                  /\ race.procs[p].out \in {"ok", "err-add"}
    /\ Len(SelectSeq(race.hist, LAMBDA h : h.did = "add-ok")) <= 1
    /\ LastDid(race.hist, {"saved"}, Len(race.hist)) > 0
           => stateFile = Stored(race.procs[
                  race.hist[LastDid(race.hist, {"saved"}, Len(race.hist))].proc].wd)

\* both saw b absent, both issued the add for the same path, and the one
\* whose add failed saved after the other's add had changed the repository
C19_Witness ==
    /\ race.procs # <<>>
    /\ \A p \in Procs : AddedUnseen(p)
    /\ race.procs[1].add.path = race.procs[2].add.path
    /\ race.procs[1].wd # race.procs[2].wd
    /\ \E p \in Procs, q \in Procs :
           /\ p # q
           /\ race.procs[p].out = "ok"
           /\ race.procs[q].out = "err-add"
           /\ \E i \in 1..Len(race.hist), j \in 1..Len(race.hist) :
                  /\ i < j
                  /\ race.hist[i] = [proc |-> p, did |-> "add-ok"]
                  /\ race.hist[j] = [proc |-> q, did |-> "saved"]
                  /\ j = LastDid(race.hist, {"saved"}, Len(race.hist))
           /\ stateFile = Stored(race.procs[q].wd)

\* C21: when the caller changes directory to each returned destination and
\* stays in place on an error, a successful switchToPrevious() never returns
\* the directory it was invoked from.
C21_ToggleNonDegenerate ==
    (last.op = "prev" /\ last.out = "ok") => last.path # last.wd

=============================================================================
